---- MODULE Spec2Model ----
(***************************************************************************)
(* The feedback-driven itinerary store of the travel planner:              *)
(* SelfTrainingLLMSystem (app.py) with its flat-file collections, the      *)
(* read-through cache in front of the itinerary file, the relational       *)
(* primary backend (db_manager.py) and the DualStorageManager              *)
(* (dual_storage_manager.py).                                              *)
(*                                                                         *)
(* Units: a text is modelled by its character count and its word count;    *)
(* quality scores are in thousandths (17.23 is 17230); timestamps are the  *)
(* ticks of a logical clock that advances once per stored itinerary.       *)
(***************************************************************************)
EXTENDS Bags, Integers, Sequences, FiniteSets, TLC

\* ------------------------------------------------------------------ bounds
MaxItins == 3       \* store_complete_itinerary calls in one behaviour
MaxFeedback == 2    \* length of the feedback log
MaxFeedbackShort == 1   \* length of the feedback log in the runs with many inputs
MaxLimit == 2       \* largest limit passed to get_recent_itineraries
MaxPasses == 2      \* effective auto-train passes in one behaviour
MaxStores == 2      \* store calls in the runs with many inputs
MaxFeedbackLong == 6    \* length of the feedback log in the trigger runs
MaxPassesLong == 4      \* effective auto-train passes in the insight runs
MaxPassesPrompt == 6    \* effective auto-train passes in SpecPrompt
MaxCalls == 3       \* execute_query calls in one behaviour

\* ------------------------------------------------------- program constants
NoRating == -99         \* Python None / SQL NULL in a rating
LoadAllLimit == 1000    \* _load_itineraries asks the primary for 1000 rows
TrainEvery == 3         \* record_feedback trains when the log length % 3 = 0
MinRecords == 3         \* _auto_train skips below 3 records
HighRating == 4         \* high-quality threshold
TopRating == 5          \* best-prompt threshold
MaxInsights == 15       \* insights[-15:]
MaxBestPrompts == 10    \* best_performing_prompts[-10:]
ScorePerStar == 16000   \* rating * 16, in thousandths
BonusCap == 20000       \* min(20, length / 1000), in thousandths
CatalogSize == 12       \* sentences in _generate_training_insight
PhraseCount == 10       \* phrases in _get_default_enhancements
InsightTail == 5        \* insights[-5:]
SampleSize == 7         \* min(7, len(enhancements))

NoComment == "<None>"   \* Python None / SQL NULL in feedback_comments

\* ------------------------------------------------------------ input sets
AllCities == {"paris", "tokyo"}
ShortText == [len |-> 1234, wc |-> 200]
LongText == [len |-> 25000, wc |-> 4000]
AllTexts == {ShortText, LongText}

\* _generate_training_insight: random.choice over the catalog; a sentence is
\* modelled by its position in the catalog.
InsightCatalog == 1..CatalogSize

\* The sentences the insight runs draw.
InsightInputs == {1, 2, 3, CatalogSize}

\* The places where a call into a backend can raise.
DbFaults == {"db_trip", "db_itin", "db_rate", "db_read", "db_read_once"}
FileFaults == {"itin_read", "itin_write", "fb_read", "fb_write",
               "at_itin_read", "pat_read", "pat_write", "at_itin_write",
               "fix_read", "fix_write"}

VARIABLES
    system,         \* the class the process runs: "app" (SelfTrainingLLMSystem)
                    \* or "dsm" (DualStorageManager)
    use_database,   \* self.use_database / self.use_postgres, fixed at construction
    file,           \* data/complete_itineraries.json: sequence of records
    cache,          \* st.cache_data entry of load_cached_itineraries: <<>> or <<value>>
    feedback,       \* data/feedback.json: sequence of entries
    patterns,       \* data/training_patterns.json
    db_trips,       \* primary: rows of table trips, in insertion order
    db_itins,       \* primary: rows of table itineraries, in insertion order
    dsm_trips,      \* data/trips.json of the DualStorageManager
    dsm_itins,      \* data/itineraries.json of the DualStorageManager
    clock,          \* logical time: number of records created so far
    ret,            \* what the last operation returned to its caller
    pool,           \* DatabaseManager.pool: idle connections, connections
                    \* checked out, each connection's transaction status
    calls           \* the execute_query call in progress (its position, its
                    \* connection, what it did so far) and how earlier calls ended

vars == <<system, use_database, file, cache, feedback, patterns, db_trips, db_itins,
          dsm_trips, dsm_itins, clock, ret, pool, calls>>

\* ------------------------------------------------------------ pure helpers
Min(a, b) == IF a <= b THEN a ELSE b

\* sanitize_text_input: strip, then cut to max_length (the modelled comments
\* are all shorter than 1000 characters, so the cut never applies).
sanitize_text_input(text) ==
    CASE text = "" -> ""
      [] text = " ok " -> "ok"
      [] OTHER -> text

\* str.title() on the modelled destinations.
Title(city) ==
    CASE city = "paris" -> "Paris"
      [] city = "tokyo" -> "Tokyo"
      [] OTHER -> city

TitledCities == {Title(c) : c \in AllCities}

\* round(x, 2) on a value in thousandths: to the nearest hundredth (the
\* modelled lengths never produce a tie).
Round2(x) == ((x + 5) \div 10) * 10

\* (i.get('rating') or 0)
RatingOr0(r) == IF r = NoRating THEN 0 ELSE r

\* _calculate_quality_score, in thousandths
LengthBonusUncapped(length) == length

LengthBonus(length) == Min(BonusCap, length)
CalculateQualityScore(rating, length) == Round2(rating * ScorePerStar + LengthBonus(length))

\* _get_default_enhancements: the phrases, written as their numbers in the list
GetDefaultEnhancements == [i \in 1..PhraseCount |-> i]

\* _generate_initial_patterns
GenerateInitialPatterns ==
    [training_iterations |-> 0,
     total_training_samples |-> 0,
     high_rated_cities |-> [c \in TitledCities |-> 0],
     learned_prompt_enhancements |-> GetDefaultEnhancements,
     quality_improvement_insights |-> <<>>,
     best_performing_prompts |-> <<>>]

\* s[-n:]
LastN(s, n) == IF Len(s) <= n THEN s ELSE SubSeq(s, Len(s) - n + 1, Len(s))

\* list(reversed(s))
Reversed(s) == [i \in 1..Len(s) |-> s[Len(s) + 1 - i]]

SeqRange(s) == {s[i] : i \in DOMAIN s}

\* ------------------------------------------------------- the flat file
\* The record store_complete_itinerary appends.
ItineraryEntry(itin_id, now, city, trip_days, budget, text) ==
    [id |-> itin_id,
     timestamp |-> now,
     city |-> city,
     trip_days |-> trip_days,
     budget |-> budget,
     itinerary_length |-> text.len,
     word_count |-> text.wc,
     rated |-> FALSE,
     rating |-> 0,
     feedback_comments |-> "",
     quality_score |-> 0,
     used_for_training |-> FALSE,
     training_iteration |-> 0]

\* load_cached_itineraries: a hit returns the cached value; a miss reads the
\* file ([] when the read raises) and caches what it returns.
LoadCachedItineraries(f, c, readFails) ==
    IF c # <<>>
    THEN [val |-> c[1], cache |-> c]
    ELSE LET v == IF readFails THEN <<>> ELSE f
         IN [val |-> v, cache |-> <<v>>]

\* _save_itineraries: write the whole collection and clear the cache; when
\* the write raises the file keeps its content and the cache is not cleared.
SaveItineraries(data, f, c, writeFails) ==
    IF writeFails
    THEN [file |-> f, cache |-> c]
    ELSE [file |-> data, cache |-> <<>>]

\* ------------------------------------------------------- the primary
\* DatabaseManager.create_trip: INSERT INTO trips ... RETURNING id
DbCreateTrip(trips, destination, duration, budget_level) ==
    Append(trips, [id |-> Len(trips) + 1,
                   destination |-> destination,
                   duration |-> duration,
                   budget_level |-> budget_level])

\* DatabaseManager.create_itinerary: INSERT INTO itineraries ... RETURNING id
DbCreateItinerary(itins, trip_id, text, now) ==
    Append(itins, [id |-> Len(itins) + 1,
                   trip_id |-> trip_id,
                   character_count |-> text.len,
                   word_count |-> text.wc,
                   rating |-> NoRating,
                   feedback_comments |-> NoComment,
                   quality_score |-> 0,
                   created_at |-> now])

\* DatabaseManager.rate_itinerary: UPDATE itineraries SET ... WHERE id = %s
DbRateItinerary(itins, itinerary_id, rating, comments) ==
    [i \in 1..Len(itins) |->
        IF itins[i].id = itinerary_id
        THEN [itins[i] EXCEPT !.rating = rating,
                              !.feedback_comments = comments,
                              !.quality_score = rating * ScorePerStar + itins[i].character_count]
        ELSE itins[i]]

\* One row of get_recent_itineraries' SELECT ... JOIN, read as the dict the
\* flat-file code handles: keys the SELECT does not return take the default
\* the code's .get() gives them.
DbRowAsRecord(row, trip) ==
    [id |-> row.id,
     timestamp |-> row.created_at,
     city |-> trip.destination,
     trip_days |-> trip.duration,
     budget |-> trip.budget_level,
     itinerary_length |-> row.character_count,
     word_count |-> 0,
     rated |-> FALSE,
     rating |-> row.rating,
     feedback_comments |-> row.feedback_comments,
     quality_score |-> 0,
     used_for_training |-> FALSE,
     training_iteration |-> 0]

\* DatabaseManager.get_recent_itineraries: newest first, at most limit rows.
\* Rows are inserted in created_at order, and every itinerary row's trip exists.
DbGetRecentItineraries(itins, trips, limit) ==
    LET n == Min(limit, Len(itins))
    IN [i \in 1..n |->
          LET row == itins[Len(itins) + 1 - i]
          IN DbRowAsRecord(row, trips[row.trip_id])]

\* ------------------------------------------------------- auto-training
\* for itin in high_quality: high_rated_cities[city.title()] += 1
RECURSIVE CountHighRatedCities(_, _, _)
CountHighRatedCities(high_quality, i, counts) ==
    IF i > Len(high_quality)
    THEN counts
    ELSE LET city == Title(high_quality[i].city)
         IN CountHighRatedCities(high_quality, i + 1,
                                 [counts EXCEPT ![city] = counts[city] + 1])

\* The summary _auto_train builds of a 5-star record.
PromptSummary(itin) ==
    [city |-> itin.city,
     days |-> itin.trip_days,
     budget |-> itin.budget,
     rating |-> itin.rating,
     word_count |-> itin.word_count]

\* for itin in high_quality: if rating == 5 and summary not in list: append, [-10:]
RECURSIVE UpdateBestPromptsNoDedup(_, _, _)
UpdateBestPromptsNoDedup(high_quality, i, prompts) ==
    IF i > Len(high_quality)
    THEN prompts
    ELSE LET itin == high_quality[i]
             next == IF RatingOr0(itin.rating) = TopRating
                     THEN LastN(Append(prompts, PromptSummary(itin)), MaxBestPrompts)
                     ELSE prompts
         IN UpdateBestPromptsNoDedup(high_quality, i + 1, next)

RECURSIVE UpdateBestPrompts(_, _, _)
UpdateBestPrompts(high_quality, i, prompts) ==
    IF i > Len(high_quality)
    THEN prompts
    ELSE LET itin == high_quality[i]
             next == IF RatingOr0(itin.rating) = TopRating
                        /\ PromptSummary(itin) \notin SeqRange(prompts)
                     THEN LastN(Append(prompts, PromptSummary(itin)), MaxBestPrompts)
                     ELSE prompts
         IN UpdateBestPrompts(high_quality, i + 1, next)

\* if new_insight not in insights: append, [-15:]
UpdateInsightsNoDedup(insights, new_insight) ==
    LastN(Append(insights, new_insight), MaxInsights)

UpdateInsights(insights, new_insight) ==
    IF new_insight \in SeqRange(insights)
    THEN insights
    ELSE LastN(Append(insights, new_insight), MaxInsights)

IsHighQuality(itin) == RatingOr0(itin.rating) >= HighRating

\* The pattern document after a pass over `itineraries` that is not skipped.
TrainedPatternsAccumulating(pats, itineraries, new_insight) ==
    LET high_quality == SelectSeq(itineraries, IsHighQuality)
    IN [training_iterations |-> pats.training_iterations + 1,
        total_training_samples |-> pats.total_training_samples + Len(high_quality),
        high_rated_cities |-> CountHighRatedCities(high_quality, 1, pats.high_rated_cities),
        quality_improvement_insights |->
            UpdateInsights(pats.quality_improvement_insights, new_insight),
        learned_prompt_enhancements |-> pats.learned_prompt_enhancements,
        best_performing_prompts |->
            UpdateBestPrompts(high_quality, 1, pats.best_performing_prompts)]

TrainedPatterns(pats, itineraries, new_insight) ==
    LET high_quality == SelectSeq(itineraries, IsHighQuality)
    IN [training_iterations |-> pats.training_iterations + 1,
        total_training_samples |-> Len(high_quality),
        high_rated_cities |-> CountHighRatedCities(high_quality, 1, pats.high_rated_cities),
        quality_improvement_insights |->
            UpdateInsights(pats.quality_improvement_insights, new_insight),
        learned_prompt_enhancements |-> pats.learned_prompt_enhancements,
        best_performing_prompts |->
            UpdateBestPrompts(high_quality, 1, pats.best_performing_prompts)]

\* Mark data as used: every unmarked record with rating >= 4.
MarkUsedRestamping(itineraries, iteration) ==
    [i \in 1..Len(itineraries) |->
        IF IsHighQuality(itineraries[i])
        THEN [itineraries[i] EXCEPT !.used_for_training = TRUE,
                                    !.training_iteration = iteration]
        ELSE itineraries[i]]

MarkUsed(itineraries, iteration) ==
    [i \in 1..Len(itineraries) |->
        IF IsHighQuality(itineraries[i]) /\ ~itineraries[i].used_for_training
        THEN [itineraries[i] EXCEPT !.used_for_training = TRUE,
                                    !.training_iteration = iteration]
        ELSE itineraries[i]]

\* Whether _auto_train returns before changing anything.
AutoTrainSkipsOnlyShort(itineraries) == Len(itineraries) < MinRecords

AutoTrainSkips(itineraries) ==
    \/ Len(itineraries) < MinRecords
    \/ SelectSeq(itineraries, IsHighQuality) = <<>>

\* _auto_train on the state (f, c, pats): the new file, cache and pattern
\* document.  With the primary enabled the pass is left to database triggers.
AutoTrain(f, c, pats, new_insight, F) ==
    IF use_database
    THEN [file |-> f, cache |-> c, patterns |-> pats]
    ELSE LET ld == LoadCachedItineraries(f, c, "at_itin_read" \in F)
             loaded == IF "pat_read" \in F THEN GenerateInitialPatterns ELSE pats
             Pass(itineraries) ==
                 LET Finish(trained) ==
                       LET sv == SaveItineraries(
                                     MarkUsed(itineraries, trained.training_iterations),
                                     f, ld.cache, "at_itin_write" \in F)
                       IN [file |-> sv.file, cache |-> sv.cache,
                           patterns |-> IF "pat_write" \in F THEN pats ELSE trained]
                 IN Finish(TrainedPatterns(loaded, itineraries, new_insight))
         IN IF AutoTrainSkips(ld.val)
            THEN [file |-> f, cache |-> ld.cache, patterns |-> pats]
            ELSE Pass(ld.val)

\* ------------------------------------------------------- operations
\* The id store_complete_itinerary gives the flat-file record.
StoreItinIdIgnoringPrimary(primary_id, itineraries_data) == Len(itineraries_data) + 1

StoreItinId(primary_id, itineraries_data) ==
    IF primary_id # 0 THEN primary_id ELSE Len(itineraries_data) + 1

\* store_complete_itinerary
StoreCompleteItinerary(city, trip_days, budget, text, F) ==
    /\ LET now == clock + 1
           tripOK == use_database /\ "db_trip" \notin F
           itinOK == tripOK /\ "db_itin" \notin F
           trips1 == IF tripOK
                     THEN DbCreateTrip(db_trips, city, trip_days, budget)
                     ELSE db_trips
           itins1 == IF itinOK
                     THEN DbCreateItinerary(db_itins, Len(trips1), text, now)
                     ELSE db_itins
           primary_id == IF itinOK THEN Len(itins1) ELSE 0
           itineraries_data == IF "itin_read" \in F THEN <<>> ELSE file
           itin_id == StoreItinId(primary_id, itineraries_data)
           entry == ItineraryEntry(itin_id, now, city, trip_days, budget, text)
       IN /\ db_trips' = trips1
          /\ db_itins' = itins1
          /\ \E sv \in {SaveItineraries(Append(itineraries_data, entry), file, cache,
                                        "itin_write" \in F)} :
                /\ file' = sv.file
                /\ cache' = sv.cache
          /\ clock' = now
          /\ ret' = [op |-> "store", id |-> itin_id]
    /\ UNCHANGED <<pool, calls, system, use_database, feedback, patterns, dsm_trips, dsm_itins>>

\* The loop of record_feedback: the first record whose id matches is rated.
RateFirstMatch(itineraries, itinerary_id, rating, comments) ==
    LET hits == {i \in 1..Len(itineraries) : itineraries[i].id = itinerary_id}
    IN [i \in 1..Len(itineraries) |->
          IF i \in hits /\ \A j \in hits : i <= j
          THEN [itineraries[i] EXCEPT
                  !.rated = TRUE,
                  !.rating = rating,
                  !.feedback_comments = comments,
                  !.quality_score =
                      CalculateQualityScore(rating, itineraries[i].itinerary_length)]
          ELSE itineraries[i]]

\* _load_itineraries: the primary's newest 1000 rows when it is enabled and
\* the read succeeds, else the cached flat-file load.
LoadItineraries(f, c, itins, trips, F) ==
    IF use_database /\ "db_read" \notin F
    THEN [val |-> DbGetRecentItineraries(itins, trips, LoadAllLimit), cache |-> c]
    ELSE LoadCachedItineraries(f, c, "itin_read" \in F)

\* Whether the first primary read of a read operation succeeds.  "db_read":
\* every primary read of the call raises; "db_read_once": only the first.
PrimaryReadOK(F) == use_database /\ "db_read" \notin F /\ "db_read_once" \notin F

\* Where _load_itineraries takes its result from.
LoadSource(F) == IF use_database /\ "db_read" \notin F THEN "reload" ELSE "file"

\* The fault points of a record_feedback call that lie inside a try block
\* whose handler logs and goes on: rate_itinerary, the read in
\* _load_itineraries, load_cached_itineraries, _save_itineraries,
\* _load_feedback, _save_feedback, and everything inside _auto_train.
RecordFeedbackHandledNoSave ==
    {"db_rate", "db_read", "itin_read", "fb_read", "fb_write",
     "at_itin_read", "pat_read", "pat_write"}

RecordFeedbackHandled ==
    {"db_rate", "db_read", "itin_read", "itin_write", "fb_read", "fb_write",
     "at_itin_read", "pat_read", "pat_write", "at_itin_write"}

\* Whether a call in which the points F raise ends with an exception at its
\* caller: some raising point has no handler inside the call.
Raises(F, handled) == F \ handled # {}

\* Whether json.dump can write the collection.  A row of the primary carries
\* created_at as the datetime the driver returns, which json cannot encode;
\* the records of the flat file hold their timestamp as a string.
JsonSerializable(data, source) == source = "file" \/ data = <<>>

\* _save_itineraries on what _load_itineraries returned.  When json.dump
\* raises, open(..., 'w') has already emptied the file and the dump stops at
\* the first datetime: what is left does not parse, which every reader of
\* the file takes as an empty list.  The cache is not cleared.
SaveLoadedItineraries(data, source, f, c, writeFails) ==
    IF writeFails
    THEN [file |-> f, cache |-> c]
    ELSE IF JsonSerializable(data, source)
         THEN SaveItineraries(data, f, c, FALSE)
         ELSE [file |-> <<>>, cache |-> c]

FeedbackEntry(itinerary_id, rating, comments) ==
    [itinerary_id |-> itinerary_id, rating |-> rating, comments |-> comments]

\* record_feedback
RecordFeedback(itinerary_id, rating, raw_comments, new_insight, F) ==
    /\ \E comments \in {sanitize_text_input(raw_comments)} :
       \E itins1 \in {IF use_database /\ "db_rate" \notin F
                      THEN DbRateItinerary(db_itins, itinerary_id, rating, comments)
                      ELSE db_itins} :
       \E ld \in {LoadItineraries(file, cache, itins1, db_trips, F)} :
       \E sv \in {SaveLoadedItineraries(
                      RateFirstMatch(ld.val, itinerary_id, rating, comments),
                      LoadSource(F), file, ld.cache, "itin_write" \in F)} :
       \E feedback_data \in {Append(IF "fb_read" \in F THEN <<>> ELSE feedback,
                                    FeedbackEntry(itinerary_id, rating, comments))} :
       \E at \in {IF Len(feedback_data) % TrainEvery = 0
                  THEN AutoTrain(sv.file, sv.cache, patterns, new_insight, F)
                  ELSE [file |-> sv.file, cache |-> sv.cache, patterns |-> patterns]} :
          /\ db_itins' = itins1
          /\ feedback' = IF "fb_write" \in F THEN feedback ELSE feedback_data
          /\ file' = at.file
          /\ cache' = at.cache
          /\ patterns' = at.patterns
          /\ ret' = [op |-> "feedback", raised |-> Raises(F, RecordFeedbackHandled)]
    /\ UNCHANGED <<pool, calls, system, use_database, db_trips, dsm_trips, dsm_itins, clock>>

\* get_recent_itineraries on the flat-file path: list(reversed(itineraries))[-limit:]
GetRecentFlat(itineraries, limit) == LastN(Reversed(itineraries), limit)

\* get_recent_itineraries: the primary's rows when the read succeeds; else
\* _load_itineraries (which asks the primary again) and the flat-file slice.
GetRecentItineraries(limit, F) ==
    /\ IF PrimaryReadOK(F)
       THEN /\ ret' = [op |-> "recent", limit |-> limit, source |-> "primary",
                       val |-> DbGetRecentItineraries(db_itins, db_trips, limit)]
            /\ cache' = cache
       ELSE \E ld \in {LoadItineraries(file, cache, db_itins, db_trips, F)} :
               /\ ret' = [op |-> "recent", limit |-> limit, source |-> LoadSource(F),
                          val |-> GetRecentFlat(ld.val, limit)]
               /\ cache' = ld.cache
    /\ UNCHANGED <<pool, calls, system, use_database, file, feedback, patterns, db_trips, db_itins,
                   dsm_trips, dsm_itins, clock>>

\* The 60 second time-to-live of the cache entry runs out.
ExpireCache ==
    /\ cache # <<>>
    /\ cache' = <<>>
    /\ UNCHANGED <<pool, calls, system, use_database, file, feedback, patterns, db_trips, db_itins,
                   dsm_trips, dsm_itins, clock, ret>>

\* _fix_old_data: null ratings become 0; the file is rewritten (around the
\* cache) only when a rating was null.
FixOldData(f, F) ==
    IF "fix_read" \in F
    THEN f
    ELSE LET needs_fix == \E i \in 1..Len(f) : f[i].rating = NoRating
             data == [i \in 1..Len(f) |->
                        [f[i] EXCEPT
                           !.rating = IF @ = NoRating THEN 0 ELSE @,
                           !.feedback_comments = IF @ = NoComment THEN "" ELSE @]]
         IN IF needs_fix /\ "fix_write" \notin F THEN data ELSE f

\* SelfTrainingLLMSystem.__init__ on a script rerun: the data files exist.
Startup(new_insight, F) ==
    /\ \E at \in {AutoTrain(FixOldData(file, F), cache, patterns, new_insight, F)} :
          /\ file' = at.file
          /\ cache' = at.cache
          /\ patterns' = at.patterns
    /\ ret' = [op |-> "startup"]
    /\ UNCHANGED <<pool, calls, system, use_database, feedback, db_trips, db_itins, dsm_trips, dsm_itins, clock>>

\* ------------------------------------------------------- statistics
RECURSIVE SumSeq(_)
SumSeq(seq) == IF seq = <<>> THEN 0 ELSE Head(seq) + SumSeq(Tail(seq))

\* sum(values) / len(values), in thousandths (the modelled values are small
\* integers and the lists short, so different quotients stay different).
Mean(values) == (SumSeq(values) * 1000) \div Len(values)

\* How often each value occurs: {value: count}
Histogram(values) ==
    [v \in SeqRange(values) |-> Cardinality({k \in 1..Len(values) : values[k] = v})]

\* i.get('rated', False) and (i.get('rating') or 0) > 0
IsRatedPositive(itin) == itin.rated /\ RatingOr0(itin.rating) > 0

\* rated = [i for i in itineraries if ...]
StatRatedAll(itineraries) == itineraries

StatRated(itineraries) == SelectSeq(itineraries, IsRatedPositive)

\* sorted(city_counts.items(), key=lambda x: x[1], reverse=True)[:5]: by
\* count, largest first; equal counts keep the order of first occurrence.
TopCities(itineraries) ==
    LET cities == {Title(itineraries[i].city) : i \in 1..Len(itineraries)}
        count(c) == Cardinality({i \in 1..Len(itineraries) :
                                    Title(itineraries[i].city) = c})
        first(c) == CHOOSE i \in 1..Len(itineraries) :
                        /\ Title(itineraries[i].city) = c
                        /\ \A j \in 1..(i - 1) : Title(itineraries[j].city) # c
        Before(a, b) == \/ count(a) > count(b)
                        \/ count(a) = count(b) /\ first(a) < first(b)
        rank(c) == Cardinality({d \in cities : Before(d, c)}) + 1
    IN [k \in 1..Min(5, Cardinality(cities)) |->
          LET c == CHOOSE d \in cities : rank(d) = k IN <<c, count(c)>>]

\* The snapshot get_statistics returns when the loaded list is empty.
ZeroStatistics ==
    [total_itineraries |-> 0,
     total_feedback |-> 0,
     rated_itineraries |-> 0,
     average_rating |-> 0,
     training_iterations |-> 0,
     high_quality_samples |-> 0,
     top_cities |-> <<>>,
     rating_distribution |-> <<>>,
     avg_word_count |-> 0,
     total_database_size |-> 0,
     improvement_rate |-> 0]

\* get_statistics, "JSON fallback" part, on the loaded itineraries, feedback
\* log and pattern document.
FlatStatistics(itineraries, feedback_data, pats) ==
    IF itineraries = <<>>
    THEN ZeroStatistics
    ELSE LET rated == StatRated(itineraries)
             ratings == [k \in 1..Len(rated) |-> rated[k].rating]
             word_counts == [k \in 1..Len(itineraries) |-> itineraries[k].word_count]
         IN [total_itineraries |-> Len(itineraries),
             total_feedback |-> Len(feedback_data),
             rated_itineraries |-> Len(rated),
             average_rating |-> IF ratings = <<>> THEN 0 ELSE Mean(ratings),
             training_iterations |-> pats.training_iterations,
             high_quality_samples |-> pats.total_training_samples,
             top_cities |-> TopCities(itineraries),
             rating_distribution |-> Histogram(ratings),
             avg_word_count |-> Mean(word_counts),
             total_database_size |-> Len(itineraries),
             improvement_rate |-> 0]

\* The row of system_metrics.  The program only reads it; the aggregates are
\* taken to be what the tables hold, and no training cycle is completed by
\* the program.
DbSystemMetrics(itins, trips) ==
    LET rated == SelectSeq(itins, LAMBDA row : row.rating # NoRating)
        ratings == [k \in 1..Len(rated) |-> rated[k].rating]
    IN [total_trips |-> Len(trips),
        total_itineraries |-> Len(itins),
        total_ratings |-> Len(rated),
        training_cycles_completed |-> 0,
        avg_rating |-> IF ratings = <<>> THEN 0 ELSE Mean(ratings),
        high_quality_samples |->
            Len(SelectSeq(itins, LAMBDA row : RatingOr0(row.rating) >= HighRating))]

\* SELECT destination, COUNT(*) ... GROUP BY destination ORDER BY count DESC
\* LIMIT 5: every order of the groups that is descending in count.
DbTopCities(trips) ==
    LET cities == {trips[i].destination : i \in 1..Len(trips)}
        count(c) == Cardinality({i \in 1..Len(trips) : trips[i].destination = c})
        n == Cardinality(cities)
    IN {top \in [1..Min(5, n) -> {<<c, count(c)>> : c \in cities}] :
           /\ \A i, j \in DOMAIN top : i < j => top[i][2] >= top[j][2]
           /\ \A i, j \in DOMAIN top : i # j => top[i] # top[j]}

\* SELECT rating, COUNT(*) ... WHERE rating IS NOT NULL GROUP BY rating
DbRatingDistribution(itins) ==
    LET rated == SelectSeq(itins, LAMBDA row : row.rating # NoRating)
    IN Histogram([k \in 1..Len(rated) |-> rated[k].rating])

\* get_statistics, primary part: DatabaseManager.get_statistics mapped to the
\* snapshot.
PrimaryStatistics(itins, trips, top_cities) ==
    LET stats == DbSystemMetrics(itins, trips)
    IN [total_itineraries |-> stats.total_itineraries,
        total_feedback |-> stats.total_ratings,
        rated_itineraries |-> stats.total_ratings,
        average_rating |-> stats.avg_rating,
        training_iterations |-> stats.training_cycles_completed,
        high_quality_samples |-> stats.high_quality_samples,
        top_cities |-> top_cities,
        rating_distribution |-> DbRatingDistribution(itins),
        avg_word_count |-> 0,
        total_database_size |-> stats.total_itineraries,
        improvement_rate |-> 0]

\* get_statistics
GetStatistics(F) ==
    /\ IF PrimaryReadOK(F)
       THEN /\ \E top_cities \in DbTopCities(db_trips) :
                 ret' = [op |-> "stats", source |-> "primary",
                         val |-> PrimaryStatistics(db_itins, db_trips, top_cities)]
            /\ cache' = cache
       ELSE \E ld \in {LoadItineraries(file, cache, db_itins, db_trips, F)} :
               /\ ret' = [op |-> "stats", source |-> LoadSource(F),
                          val |-> FlatStatistics(
                                      ld.val,
                                      IF "fb_read" \in F THEN <<>> ELSE feedback,
                                      IF "pat_read" \in F THEN GenerateInitialPatterns
                                                          ELSE patterns)]
               /\ cache' = ld.cache
    /\ UNCHANGED <<pool, calls, system, use_database, file, feedback, patterns, db_trips, db_itins,
                   dsm_trips, dsm_itins, clock>>

\* ------------------------------------------------------- DualStorageManager
\* _load_json: [] when the read raises
DsmLoadJson(f, readFails) == IF readFails THEN <<>> ELSE f

\* _save_json: the file keeps its content when the write raises
DsmSaveJson(data, f, writeFails) == IF writeFails THEN f ELSE data

\* The id a DualStorageManager record gets.
DsmRecordId(primary_id, loaded) ==
    IF primary_id # 0 THEN primary_id ELSE Len(loaded) + 1

\* DualStorageManager.create_trip
DsmCreateTrip(destination, duration, budget_level, F) ==
    /\ LET now == clock + 1
           tripOK == use_database /\ "db_trip" \notin F
           trips1 == IF tripOK
                     THEN DbCreateTrip(db_trips, destination, duration, budget_level)
                     ELSE db_trips
           primary_id == IF tripOK THEN Len(trips1) ELSE 0
           trips == DsmLoadJson(dsm_trips, "dsm_read" \in F)
           trip_id == DsmRecordId(primary_id, trips)
           trip_data == [id |-> trip_id, destination |-> destination,
                         duration |-> duration, budget_level |-> budget_level,
                         created_at |-> now]
       IN /\ db_trips' = trips1
          /\ dsm_trips' = DsmSaveJson(Append(trips, trip_data), dsm_trips, "dsm_write" \in F)
          /\ clock' = now
          /\ ret' = [op |-> "create_trip", id |-> trip_id]
    /\ UNCHANGED <<pool, calls, system, use_database, file, cache, feedback, patterns, db_itins, dsm_itins>>

\* DualStorageManager.create_itinerary
DsmCreateItinerary(trip_id, text, F) ==
    /\ LET now == clock + 1
           itinOK == use_database /\ "db_itin" \notin F
           itins1 == IF itinOK
                     THEN DbCreateItinerary(db_itins, trip_id, text, now)
                     ELSE db_itins
           primary_id == IF itinOK THEN Len(itins1) ELSE 0
           itineraries == DsmLoadJson(dsm_itins, "dsm_read" \in F)
           itin_id == DsmRecordId(primary_id, itineraries)
           itin_data == [id |-> itin_id, trip_id |-> trip_id,
                         character_count |-> text.len, word_count |-> text.wc,
                         created_at |-> now,
                         rating |-> NoRating, feedback_comments |-> NoComment]
       IN /\ db_itins' = itins1
          /\ dsm_itins' = DsmSaveJson(Append(itineraries, itin_data), dsm_itins,
                                      "dsm_write" \in F)
          /\ clock' = now
          /\ ret' = [op |-> "create_itinerary", id |-> itin_id]
    /\ UNCHANGED <<pool, calls, system, use_database, file, cache, feedback, patterns, db_trips, dsm_trips>>

\* The loop of DualStorageManager.rate_itinerary
DsmRateFirstMatch(itineraries, itinerary_id, rating, comments) ==
    LET hits == {i \in 1..Len(itineraries) : itineraries[i].id = itinerary_id}
    IN [i \in 1..Len(itineraries) |->
          IF i \in hits /\ \A j \in hits : i <= j
          THEN [itineraries[i] EXCEPT !.rating = rating, !.feedback_comments = comments]
          ELSE itineraries[i]]

\* DualStorageManager.rate_itinerary
DsmRateItinerary(itinerary_id, rating, comments, F) ==
    /\ db_itins' = IF use_database /\ "db_rate" \notin F
                   THEN DbRateItinerary(db_itins, itinerary_id, rating, comments)
                   ELSE db_itins
    /\ dsm_itins' = DsmSaveJson(DsmRateFirstMatch(DsmLoadJson(dsm_itins, "dsm_read" \in F),
                                                  itinerary_id, rating, comments),
                                dsm_itins, "dsm_write" \in F)
    /\ ret' = [op |-> "rate_itinerary"]
    /\ UNCHANGED <<pool, calls, system, use_database, file, cache, feedback, patterns, db_trips,
                   dsm_trips, clock>>

\* DualStorageManager.get_statistics: the primary's statistics, else the
\* counts of the two JSON files.
DsmGetStatistics(F) ==
    /\ IF use_database /\ "db_read" \notin F
       THEN \E top_cities \in DbTopCities(db_trips) :
               ret' = [op |-> "stats", source |-> "primary",
                       val |-> [metrics |-> DbSystemMetrics(db_itins, db_trips),
                                top_cities |-> top_cities,
                                rating_distribution |-> DbRatingDistribution(db_itins)]]
       ELSE LET trips == DsmLoadJson(dsm_trips, "dsm_read" \in F)
                itineraries == DsmLoadJson(dsm_itins, "dsm_read" \in F)
                rated == SelectSeq(itineraries, LAMBDA i : RatingOr0(i.rating) # 0)
                ratings == [k \in 1..Len(rated) |-> rated[k].rating]
            IN ret' = [op |-> "stats", source |-> "file",
                       val |-> [total_trips |-> Len(trips),
                                total_itineraries |-> Len(itineraries),
                                total_ratings |-> Len(rated),
                                avg_rating |-> IF ratings = <<>> THEN 0 ELSE Mean(ratings)]]
    /\ UNCHANGED <<pool, calls, system, use_database, file, cache, feedback, patterns, db_trips, db_itins,
                   dsm_trips, dsm_itins, clock>>

\* ------------------------------------------------------- specifications
\* ------------------------------------------------------- the prompt
\* _load_training_patterns.  No step of the program inserts a row into
\* training_cycles, so with the primary enabled the query finds none and the
\* pattern file is read as in flat-file mode.
LoadTrainingPatterns(pats, F) ==
    IF "pat_read" \in F THEN GenerateInitialPatterns ELSE pats

\* random.sample(population, k): the outcomes, each the bag of the elements
\* drawn from k distinct positions.  The order of the draws is left out.
RandomSample(population, k) ==
    {[ph \in {population[p] : p \in S} |->
          Cardinality({p \in S : population[p] = ph})] :
       S \in {T \in SUBSET DOMAIN population : Cardinality(T) = k}}

\* The insight lines of the prompt.
PromptInsightsAll(insights) == insights

PromptInsights(insights) == LastN(insights, InsightTail)

\* get_training_enhanced_prompt: the text, written as its variable parts.
GetTrainingEnhancedPrompt(city, trip_days, budget, interests, F) ==
    /\ LET pats == LoadTrainingPatterns(patterns, F)
           enhancements == pats.learned_prompt_enhancements
       IN \E sample \in RandomSample(enhancements, Min(SampleSize, Len(enhancements))) :
             ret' = [op |-> "prompt",
                     args |-> [city |-> city, trip_days |-> trip_days,
                               budget |-> budget, interests |-> interests],
                     val |-> [trip_days |-> trip_days,
                              budget |-> budget,
                              insights |-> PromptInsights(pats.quality_improvement_insights),
                              must_include |-> sample]]
    /\ UNCHANGED <<pool, calls, system, use_database, file, cache, feedback, patterns, db_trips,
                   db_itins, dsm_trips, dsm_itins, clock>>

\* ------------------------------------------------------- the connection pool
\* SimpleConnectionPool(minconn=1, ...): one connection, idle, no
\* transaction open.
InitPool == [idle |-> <<1>>, used |-> {}, txn |-> [c \in {1} |-> "idle"]]

\* No execute_query call in progress; `done` tells how the earlier calls ended.
NoCall(done) == [pc |-> "idle", conn |-> 0, error |-> FALSE, trail |-> <<>>, done |-> done]

\* pool.putconn(conn)
PutConnLeaking(p, conn) == p

PutConn(p, conn) == [p EXCEPT !.idle = Append(@, conn), !.used = @ \ {conn}]

\* get_connection, conn = self.pool.getconn(): when it raises there is no
\* connection to roll back or to return, and the exception reaches the caller.
GetConn(fails) ==
    /\ calls.pc = "idle"
    /\ IF fails \/ pool.idle = <<>>
       THEN /\ calls' = NoCall(Append(calls.done, "no_connection"))
            /\ ret' = [op |-> "execute_query", raised |-> TRUE, trail |-> <<>>]
            /\ pool' = pool
       ELSE LET conn == pool.idle[Len(pool.idle)]
            IN /\ pool' = [pool EXCEPT !.idle = SubSeq(@, 1, Len(@) - 1),
                                       !.used = @ \cup {conn}]
               /\ calls' = [calls EXCEPT !.pc = "setup", !.conn = conn,
                                         !.trail = <<"getconn">>]
               /\ ret' = ret
    /\ UNCHANGED <<system, use_database, file, cache, feedback, patterns, db_trips,
                   db_itins, dsm_trips, dsm_itins, clock>>

\* get_connection, cursor.execute("SET statement_timeout = '30s'"): the
\* driver opens a transaction with the first statement.
SetStatementTimeout(fails) ==
    /\ calls.pc = "setup"
    /\ pool' = [pool EXCEPT !.txn[calls.conn] = "open"]
    /\ calls' = [calls EXCEPT !.pc = IF fails THEN "except" ELSE "yield",
                              !.trail = Append(@, "begin")]
    /\ UNCHANGED <<system, use_database, file, cache, feedback, patterns, db_trips,
                   db_itins, dsm_trips, dsm_itins, clock, ret>>

\* execute_query, the body of the with block: cursor.execute(query, params)
\* and, when asked, cursor.fetchall().
RunStatement(fetch, fails) ==
    /\ calls.pc = "yield"
    /\ calls' = [calls EXCEPT !.pc = IF fails THEN "except" ELSE "commit",
                              !.trail = Append(@, IF fetch THEN "fetch" ELSE "execute")]
    /\ UNCHANGED <<system, use_database, file, cache, feedback, patterns, db_trips,
                   db_itins, dsm_trips, dsm_itins, clock, ret, pool>>

\* get_connection, conn.commit() after the yield
Commit(fails) ==
    /\ calls.pc = "commit"
    /\ IF fails
       THEN /\ calls' = [calls EXCEPT !.pc = "except"]
            /\ pool' = pool
       ELSE /\ calls' = [calls EXCEPT !.pc = "finally", !.trail = Append(@, "commit")]
            /\ pool' = [pool EXCEPT !.txn[calls.conn] = "idle"]
    /\ UNCHANGED <<system, use_database, file, cache, feedback, patterns, db_trips,
                   db_itins, dsm_trips, dsm_itins, clock, ret>>

\* get_connection, except Exception: conn.rollback(), log, raise
Rollback ==
    /\ calls.pc = "except"
    /\ pool' = [pool EXCEPT !.txn[calls.conn] = "idle"]
    /\ calls' = [calls EXCEPT !.pc = "finally", !.error = TRUE,
                              !.trail = Append(@, "rollback")]
    /\ UNCHANGED <<system, use_database, file, cache, feedback, patterns, db_trips,
                   db_itins, dsm_trips, dsm_itins, clock, ret>>

\* get_connection, finally: self.pool.putconn(conn); the call returns or the
\* exception reaches the caller of execute_query.
Finally ==
    /\ calls.pc = "finally"
    /\ pool' = PutConn(pool, calls.conn)
    /\ calls' = NoCall(Append(calls.done, IF calls.error THEN "rolled_back"
                                                         ELSE "committed"))
    /\ ret' = [op |-> "execute_query", raised |-> calls.error,
               trail |-> Append(calls.trail, "putconn")]
    /\ UNCHANGED <<system, use_database, file, cache, feedback, patterns, db_trips,
                   db_itins, dsm_trips, dsm_itins, clock>>

InitCommon ==
    /\ file = <<>>
    /\ cache = <<>>
    /\ feedback = <<>>
    /\ patterns = GenerateInitialPatterns
    /\ db_trips = <<>>
    /\ db_itins = <<>>
    /\ dsm_trips = <<>>
    /\ dsm_itins = <<>>
    /\ clock = 0
    /\ ret = [op |-> "init"]
    /\ pool = InitPool
    /\ calls = NoCall(<<>>)

\* The bounded runs: at most `stores` records created per collection, a
\* feedback log of at most `entries` entries, at most MaxPasses effective
\* auto-train passes.
BoundedPasses(stores, entries, passes) ==
    /\ Len(dsm_trips') <= stores
    /\ Len(dsm_itins') <= stores
    /\ system = "app" => clock' <= stores
    /\ Len(feedback') <= entries
    /\ patterns'.training_iterations <= passes

Bounded(stores, entries) == BoundedPasses(stores, entries, MaxPasses)

\* Spec: SelfTrainingLLMSystem in either mode; calls into the primary may
\* raise, the flat files work; ratings inside and outside 1..5.
Init ==
    /\ system = "app"
    /\ use_database \in BOOLEAN
    /\ InitCommon

Next ==
    \/ \E F \in {{}, {"db_trip"}, {"db_itin"}} :
         StoreCompleteItinerary("paris", 3, "Moderate", ShortText, F)
             /\ Bounded(MaxStores, MaxFeedback)
    \/ \E id \in 1..(MaxStores + 1), r \in {0, 5, 6}, F \in SUBSET {"db_rate", "db_read"} :
         RecordFeedback(id, r, " ok ", 1, F) /\ Bounded(MaxStores, MaxFeedback)
    \/ \E limit \in 1..MaxLimit, F \in {{}, {"db_read"}} : GetRecentItineraries(limit, F)
    \/ ExpireCache
    \/ Startup(1, {}) /\ Bounded(MaxStores, MaxFeedback)

Spec == Init /\ [][Next]_vars

\* SpecStore: either class, either mode; calls into the primary may raise, the
\* flat files work; short runs.
InitStore ==
    /\ system \in {"app", "dsm"}
    /\ use_database \in BOOLEAN
    /\ InitCommon

NextStore ==
    \/ /\ system = "app"
       /\ \E F \in {{}, {"db_trip"}, {"db_itin"}} :
            StoreCompleteItinerary("paris", 3, "Moderate", ShortText, F)
       /\ Bounded(MaxStores, MaxFeedbackShort)
    \/ /\ system = "app"
       /\ \E id \in 1..MaxStores, F \in {{}, {"db_rate"}, {"db_read"}} :
            RecordFeedback(id, 5, " ok ", 1, F)
       /\ Bounded(MaxStores, MaxFeedbackShort)
    \/ /\ system = "app"
       /\ \E F \in {{}, {"db_read"}} : GetRecentItineraries(MaxLimit, F)
    \/ /\ system = "app"
       /\ ExpireCache
    \/ /\ system = "app"
       /\ Startup(1, {})
       /\ Bounded(MaxStores, MaxFeedbackShort)
    \/ /\ system = "dsm"
       /\ \E F \in {{}, {"db_trip"}} : DsmCreateTrip("paris", 3, "Moderate", F)
       /\ Bounded(MaxStores, MaxFeedbackShort)
    \/ /\ system = "dsm"
       /\ \E trip_id \in 1..Len(dsm_trips), F \in {{}, {"db_itin"}} :
            DsmCreateItinerary(trip_id, ShortText, F)
       /\ Bounded(MaxStores, MaxFeedbackShort)
    \/ /\ system = "dsm"
       /\ \E id \in 1..MaxStores, F \in {{}, {"db_rate"}} :
            DsmRateItinerary(id, 5, "ok", F)

SpecStore == InitStore /\ [][NextStore]_vars

\* SpecFlat: SelfTrainingLLMSystem with the primary disabled; no file
\* operation fails.
InitFlat ==
    /\ system = "app"
    /\ use_database = FALSE
    /\ InitCommon

NextFlat ==
    \/ \E text \in AllTexts :
         StoreCompleteItinerary("paris", 3, "Moderate", text, {}) /\ Bounded(MaxItins, MaxFeedback)
    \/ \E id \in 1..MaxItins, r \in {0, 3, 4, 5} :
         RecordFeedback(id, r, " ok ", 1, {}) /\ Bounded(MaxItins, MaxFeedback)
    \/ \E limit \in 1..MaxLimit : GetRecentItineraries(limit, {})
    \/ ExpireCache
    \/ Startup(1, {}) /\ Bounded(MaxItins, MaxFeedback)

SpecFlat == InitFlat /\ [][NextFlat]_vars

\* SpecScore: as SpecFlat, with every rating 1..5 and short runs.
NextScore ==
    \/ \E text \in AllTexts :
         StoreCompleteItinerary("paris", 3, "Moderate", text, {})
             /\ Bounded(MaxStores, MaxFeedbackShort)
    \/ \E id \in 1..MaxStores, r \in 1..5 :
         RecordFeedback(id, r, " ok ", 1, {}) /\ Bounded(MaxStores, MaxFeedbackShort)
    \/ \E limit \in 1..MaxLimit : GetRecentItineraries(limit, {})
    \/ ExpireCache
    \/ Startup(1, {}) /\ Bounded(MaxStores, MaxFeedbackShort)

SpecScore == InitFlat /\ [][NextScore]_vars

\* SpecTrigger: the primary disabled, no file operation fails; feedback on
\* the first record until the log holds MaxFeedbackLong entries.
NextTrigger ==
    \/ StoreCompleteItinerary("paris", 3, "Moderate", ShortText, {})
          /\ Bounded(MaxItins, MaxFeedbackLong)
    \/ \E r \in {3, 5} :
         RecordFeedback(1, r, "", 1, {}) /\ Bounded(MaxItins, MaxFeedbackLong)
    \/ ExpireCache
    \/ Startup(1, {}) /\ Bounded(MaxItins, MaxFeedbackLong)

SpecTrigger == InitFlat /\ [][NextTrigger]_vars

\* SpecSkip: as SpecTrigger, in either mode.
SpecSkip == Init /\ [][NextTrigger]_vars

\* SpecRerate: the primary disabled, no file operation fails; the first two
\* records are rated and rated again, above and below the high-quality
\* threshold, between passes.
NextRerate ==
    \/ StoreCompleteItinerary("paris", 3, "Moderate", ShortText, {})
          /\ Bounded(MaxItins, MaxItins)
    \/ \E id \in 1..MaxStores, r \in {3, 5} :
         RecordFeedback(id, r, "", 1, {}) /\ Bounded(MaxItins, MaxItins)
    \/ Startup(1, {}) /\ Bounded(MaxItins, MaxItins)

SpecRerate == InitFlat /\ [][NextRerate]_vars

\* SpecScenario: the primary disabled, no file operation fails; itineraries
\* for either city with a short or a long text, each rated 5 at most once
\* over the run, and constructions of the system in between.
NextScenario ==
    \/ \E city \in AllCities, text \in AllTexts :
         StoreCompleteItinerary(city, 3, "Moderate", text, {}) /\ Bounded(MaxItins, MaxItins)
    \/ \E id \in 1..MaxItins :
         /\ \A i \in 1..Len(feedback) : feedback[i].itinerary_id # id
         /\ RecordFeedback(id, 5, "", 1, {})
         /\ Bounded(MaxItins, MaxItins)
    \/ ExpireCache
    \/ Startup(1, {}) /\ Bounded(MaxItins, MaxItins)

SpecScenario == InitFlat /\ [][NextScenario]_vars

\* SpecInsights: the primary disabled, no file operation fails; up to
\* MaxPassesLong passes, each drawing one of the InsightInputs.
NextInsights ==
    \/ StoreCompleteItinerary("paris", 3, "Moderate", ShortText, {})
          /\ BoundedPasses(MaxItins, MaxItins, MaxPassesLong)
    \/ \E new_insight \in InsightInputs :
         RecordFeedback(1, 5, "", new_insight, {})
             /\ BoundedPasses(MaxItins, MaxItins, MaxPassesLong)
    \/ ExpireCache
    \/ \E new_insight \in InsightInputs :
         Startup(new_insight, {}) /\ BoundedPasses(MaxItins, MaxItins, MaxPassesLong)

SpecInsights == InitFlat /\ [][NextInsights]_vars

\* SpecStats: the primary disabled, no file operation fails; statistics
\* over records of both cities, unrated and rated 0, 3 or 4.
NextStats ==
    \/ \E city \in AllCities :
         StoreCompleteItinerary(city, 3, "Moderate", ShortText, {})
             /\ Bounded(MaxStores, MaxFeedback)
    \/ \E id \in 1..MaxStores, r \in {0, 3, 4} :
         RecordFeedback(id, r, "", 1, {}) /\ Bounded(MaxStores, MaxFeedback)
    \/ GetStatistics({})
    \/ ExpireCache
    \/ Startup(1, {}) /\ Bounded(MaxStores, MaxFeedback)

SpecStats == InitFlat /\ [][NextStats]_vars

\* SpecPrompt: SelfTrainingLLMSystem in either mode, no file operation
\* fails; prompts are built between stores, one feedback and reruns of the
\* script.  A pass draws the first sentence of the catalog or the last one
\* not drawn yet, so that the list of insights grows past InsightTail.
PromptDays == {3}
PromptInsightDraws == {1, CatalogSize - Len(patterns.quality_improvement_insights)}

NextPrompt ==
    \/ StoreCompleteItinerary("paris", 3, "Moderate", ShortText, {})
          /\ BoundedPasses(MaxItins, MaxFeedbackShort, MaxPassesPrompt)
    \/ \E new_insight \in PromptInsightDraws :
         RecordFeedback(1, 5, "", new_insight, {})
             /\ BoundedPasses(MaxItins, MaxFeedbackShort, MaxPassesPrompt)
    \/ \E new_insight \in PromptInsightDraws :
         Startup(new_insight, {})
             /\ BoundedPasses(MaxItins, MaxFeedbackShort, MaxPassesPrompt)
    \/ \E trip_days \in PromptDays :
         GetTrainingEnhancedPrompt("paris", trip_days, "Moderate", <<"food">>, {})

SpecPrompt == Init /\ [][NextPrompt]_vars

\* SpecSync: either class with the primary enabled, no call into a backend
\* fails; only creations, of short and long texts, and ratings.
InitSync ==
    /\ system \in {"app", "dsm"}
    /\ use_database = TRUE
    /\ InitCommon

NextSync ==
    \/ /\ system = "app"
       /\ \E text \in AllTexts : StoreCompleteItinerary("paris", 3, "Moderate", text, {})
       /\ Bounded(MaxItins, MaxFeedback)
    \/ /\ system = "app"
       /\ \E id \in 1..(MaxItins + 1), r \in {0, 3, 5} :
            RecordFeedback(id, r, " ok ", 1, {})
       /\ Bounded(MaxItins, MaxFeedback)
    \/ /\ system = "dsm"
       /\ DsmCreateTrip("paris", 3, "Moderate", {})
       /\ Bounded(MaxItins, MaxFeedback)
    \/ /\ system = "dsm"
       /\ \E trip_id \in 1..Len(dsm_trips), text \in AllTexts :
            DsmCreateItinerary(trip_id, text, {})
       /\ Bounded(MaxItins, MaxFeedback)
    \/ /\ system = "dsm"
       /\ \E id \in 1..(MaxItins + 1), r \in {3, 5} : DsmRateItinerary(id, r, "ok", {})

SpecSync == InitSync /\ [][NextSync]_vars

\* SpecPool: DatabaseManager alone; a sequence of execute_query calls, each
\* of whose steps may raise.
InitDb ==
    /\ system = "db"
    /\ use_database = TRUE
    /\ InitCommon

NextPool ==
    \/ \E fails \in BOOLEAN : GetConn(fails) /\ Len(calls.done) < MaxCalls
    \/ \E fails \in BOOLEAN : SetStatementTimeout(fails)
    \/ \E fetch \in BOOLEAN, fails \in BOOLEAN : RunStatement(fetch, fails)
    \/ \E fails \in BOOLEAN : Commit(fails)
    \/ Rollback
    \/ Finally

SpecPool == InitDb /\ [][NextPool]_vars

\* SpecReads: either class, either mode; the flat files work, a write to the
\* primary may raise, and a read of the primary may raise once or throughout
\* a call.
ReadFaultSets == {{}, {"db_read"}, {"db_read_once"}}

NextReads ==
    \/ /\ system = "app"
       /\ \E F \in {{}, {"db_itin"}} :
            StoreCompleteItinerary("paris", 3, "Moderate", ShortText, F)
       /\ Bounded(MaxStores, MaxFeedbackShort)
    \/ /\ system = "app"
       /\ \E id \in 1..MaxStores, F \in {{}, {"db_rate"}} :
            RecordFeedback(id, 5, "", 1, F)
       /\ Bounded(MaxStores, MaxFeedbackShort)
    \/ /\ system = "app"
       /\ \E limit \in 1..MaxLimit, F \in ReadFaultSets : GetRecentItineraries(limit, F)
    \/ /\ system = "app"
       /\ \E F \in ReadFaultSets : GetStatistics(F)
    \/ /\ system = "app"
       /\ ExpireCache
    \/ /\ system = "app"
       /\ Startup(1, {})
       /\ Bounded(MaxStores, MaxFeedbackShort)
    \/ /\ system = "dsm"
       /\ DsmCreateTrip("paris", 3, "Moderate", {})
       /\ Bounded(MaxStores, MaxFeedbackShort)
    \/ /\ system = "dsm"
       /\ \E trip_id \in 1..Len(dsm_trips), F \in {{}, {"db_itin"}} :
            DsmCreateItinerary(trip_id, ShortText, F)
       /\ Bounded(MaxStores, MaxFeedbackShort)
    \/ /\ system = "dsm"
       /\ \E id \in 1..MaxStores, F \in {{}, {"db_rate"}} :
            DsmRateItinerary(id, 5, "ok", F)
    \/ /\ system = "dsm"
       /\ \E F \in {{}, {"db_read"}} : DsmGetStatistics(F)

SpecReads == InitStore /\ [][NextReads]_vars

\* SpecFeedbackFaults: SelfTrainingLLMSystem in either mode; in a
\* record_feedback call any combination of the kinds of failure may occur,
\* or any single fault point may raise.
FeedbackFaultPoints ==
    {"db_rate", "db_read", "itin_read", "itin_write", "fb_read", "fb_write",
     "at_itin_read", "pat_read", "pat_write", "at_itin_write"}

\* Primary write, primary read, flat-file reads, flat-file writes, the steps
\* of the auto-train pass.
FeedbackFaultKinds ==
    {{"db_rate"}, {"db_read"}, {"itin_read", "fb_read"}, {"itin_write", "fb_write"},
     {"at_itin_read", "pat_read", "pat_write", "at_itin_write"}}

FeedbackFaultCombos ==
    {UNION kinds : kinds \in SUBSET FeedbackFaultKinds}
        \cup {{point} : point \in FeedbackFaultPoints}

\* A 5 for the first record, and a 0 without comment for an id no record has.
FeedbackCalls ==
    {[id |-> 1, rating |-> 5, comments |-> " ok "],
     [id |-> MaxItins + 1, rating |-> 0, comments |-> ""]}

NextFeedbackFaults ==
    \/ StoreCompleteItinerary("paris", 3, "Moderate", ShortText, {})
          /\ Bounded(MaxItins, MaxItins)
    \/ \E call \in FeedbackCalls, F \in FeedbackFaultCombos :
         RecordFeedback(call.id, call.rating, call.comments, 1, F)
             /\ Bounded(MaxItins, MaxItins)
    \/ ExpireCache
    \/ Startup(1, {}) /\ Bounded(MaxItins, MaxItins)

SpecFeedbackFaults == Init /\ [][NextFeedbackFaults]_vars

\* SpecFaults: SelfTrainingLLMSystem in either mode; in each call one call
\* into the primary or one flat-file read or write may raise.
StoreFaultSets == {{}, {"db_itin"}, {"itin_read"}, {"itin_write"}}
FeedbackFaultSets == {{}, {"db_rate"}, {"db_read"}, {"itin_read"}, {"itin_write"},
                      {"fb_read"}, {"fb_write"}, {"db_read", "itin_read"}}
RecentFaultSets == {{}, {"db_read"}, {"db_read", "itin_read"}, {"itin_read"}}
StartupFaultSets == {{}, {"fix_read"}, {"at_itin_read"}}

NextFaults ==
    \/ \E F \in StoreFaultSets :
         StoreCompleteItinerary("paris", 3, "Moderate", ShortText, F)
             /\ Bounded(MaxStores, MaxFeedback)
    \/ \E id \in 1..MaxStores, F \in FeedbackFaultSets :
         RecordFeedback(id, 5, " ok ", 1, F) /\ Bounded(MaxStores, MaxFeedback)
    \/ \E F \in RecentFaultSets : GetRecentItineraries(MaxLimit, F)
    \/ ExpireCache
    \/ \E F \in StartupFaultSets : Startup(1, F) /\ Bounded(MaxStores, MaxFeedback)

SpecFaults == Init /\ [][NextFaults]_vars

\* ------------------------------------------------------- properties
\* A record of the flat file is identified by its id and creation time.
SameRecord(a, b) == a.id = b.id /\ a.timestamp = b.timestamp

\* The step is a record_feedback call that appended entry e to the log.
LoggedFeedback == Len(feedback') = Len(feedback) + 1

LastLogged == feedback'[Len(feedback')]

HasId(itineraries, id) == \E i \in 1..Len(itineraries) : itineraries[i].id = id

\* C1: on the flat-file path get_recent_itineraries(limit) returns the
\* min(limit, n) most recently created records, newest first: element i of
\* the result is the i-th record from the end of the file.
C1_RecentNewestFirst ==
    (ret.op = "recent" /\ ret.source = "file") =>
        /\ Len(ret.val) = Min(ret.limit, Len(file))
        /\ \A i \in 1..Len(ret.val) : ret.val[i] = file[Len(file) + 1 - i]

\* C2: every store_complete_itinerary call, whatever the primary did
\* (disabled, succeeded, raised), appends exactly one record to the flat
\* file; its id is the returned id, which is the primary's id when the
\* primary produced one and the length of the loaded list + 1 otherwise.
C2_StoreAppendsOne ==
    [][/\ (clock' = clock + 1 /\ ret'.op = "store") =>
             /\ file' = Append(file, file'[Len(file')])
             /\ file'[Len(file')].id = ret'.id
             /\ ret'.id = IF Len(db_itins') = Len(db_itins) + 1
                          THEN db_itins'[Len(db_itins')].id
                          ELSE Len(file) + 1
       /\ (clock' = clock + 1 /\ ret'.op = "create_itinerary") =>
             /\ dsm_itins' = Append(dsm_itins, dsm_itins'[Len(dsm_itins')])
             /\ dsm_itins'[Len(dsm_itins')].id = ret'.id
             /\ ret'.id = IF Len(db_itins') = Len(db_itins) + 1
                          THEN db_itins'[Len(db_itins')].id
                          ELSE Len(dsm_itins) + 1]_vars

\* C2 witness: the first store's primary write raised and the record took the
\* id 1 from the file's length; the second store's primary write succeeded and
\* the record took the primary's id, 1 again.
C2_Witness ==
    /\ system = "app"
    /\ use_database
    /\ ret.op = "store"
    /\ Len(file) = 2
    /\ Len(db_itins) = 1
    /\ file[1].id = 1
    /\ file[2].id = 1

\* C3: with the primary disabled, the record a store has just written is in
\* the result of the next get_recent_itineraries(limit), for every limit >= 1.
C3_StoredIsRecent ==
    [][(~use_database /\ ret.op = "store" /\ ret'.op = "recent") =>
          \E i \in 1..Len(ret'.val) :
              ret'.val[i].timestamp = clock /\ ret'.val[i].id = ret.id]_vars

\* The quality score of the claim, in thousandths: r * 16 plus the length
\* bonus, which is 20 from 20000 characters on.
ClaimedScore(r, len) ==
    r * 16000 + (IF len >= 20000 THEN 20000 ELSE ((len + 5) \div 10) * 10)

C5_RatingInRange ==
    /\ \A i \in 1..Len(file) : RatingOr0(file[i].rating) \in 0..5
    /\ \A i \in 1..Len(db_itins) : RatingOr0(db_itins[i].rating) \in 0..5
    /\ \A i \in 1..Len(feedback) : feedback[i].rating \in 1..5

\* C6: record_feedback(id, ...) changes at most the one flat-file record
\* whose id is id; the number and order of the records and every other
\* record are unchanged, and nothing changes when no record has that id.
C6_FeedbackFrame ==
    [][LoggedFeedback =>
          /\ Len(file') = Len(file)
          /\ \A i \in 1..Len(file) :
                 file[i].id # LastLogged.itinerary_id => file'[i] = file[i]
          /\ Cardinality({i \in 1..Len(file) : file'[i] # file[i]}) <= 1]_vars

\* C7: after record_feedback(i, r, c) on a record present in the flat file,
\* the flat-file record i has rating r and rated = true, whatever the state
\* of the primary.
C7_FeedbackReachesFile ==
    [][(LoggedFeedback /\ HasId(file, LastLogged.itinerary_id)) =>
          \E i \in 1..Len(file') :
              /\ file'[i].id = LastLogged.itinerary_id
              /\ file'[i].rating = LastLogged.rating
              /\ file'[i].rated]_vars

\* C8: no step removes an itinerary record from the flat file.
C8_NeverRemoved ==
    [][\A i \in 1..Len(file) :
          \E j \in 1..Len(file') : SameRecord(file'[j], file[i])]_vars

\* C9: every record_feedback call whose write of the feedback file goes
\* through extends the log by exactly its entry, at the end, and leaves the
\* earlier entries as they were, also when reading the feedback file fails.
C9_LogAppendOnly ==
    [][\A id \in 1..MaxStores, F \in FeedbackFaultSets :
          ("fb_write" \notin F /\ RecordFeedback(id, 5, " ok ", 1, F)) =>
              feedback' = Append(feedback, FeedbackEntry(id, 5, "ok"))]_vars

\* C10: no two records of a flat-file itinerary collection share an id.
C10_UniqueIds ==
    /\ \A i, j \in 1..Len(file) : i # j => file[i].id # file[j].id
    /\ \A i, j \in 1..Len(dsm_itins) : i # j => dsm_itins[i].id # dsm_itins[j].id

\* Records that let a pass take effect: at least 3, one of them rated >= 4.
Qualifying(itineraries) ==
    /\ Len(itineraries) >= 3
    /\ \E i \in 1..Len(itineraries) : RatingOr0(itineraries[i].rating) >= 4

\* The step is an auto-train pass that took effect.
PassTookEffect == patterns'.training_iterations # patterns.training_iterations

\* The step is a record_feedback call that brought the log to a positive
\* multiple of 3.
FeedbackAtMultipleOf3 ==
    /\ LoggedFeedback
    /\ Len(feedback') > 0
    /\ Len(feedback') % 3 = 0

\* C11 as stated: in flat-file mode the training-iteration counter increases
\* only during a record_feedback call that brings the feedback-log length to
\* a positive multiple of 3 while at least 3 records and one rating >= 4 exist.
C11_TrainOnlyOnFeedback ==
    [][(~use_database /\ PassTookEffect) =>
          /\ FeedbackAtMultipleOf3
          /\ Qualifying(file')]_vars

\* C11 amended: in flat-file mode the training-iteration counter increases,
\* by one, only during a record_feedback call that brings the feedback-log
\* length to a positive multiple of 3 or during the construction of the
\* system, in both cases while at least 3 records and one rating >= 4 exist;
\* a record_feedback call that brings the log to length n in 1..6 with such
\* records makes a pass take effect exactly when n is 3 or 6.
C11_TrainOnTriggerOrStartup ==
    [][~use_database =>
          /\ PassTookEffect =>
                /\ patterns'.training_iterations = patterns.training_iterations + 1
                /\ Qualifying(file')
                /\ FeedbackAtMultipleOf3 \/ ret'.op = "startup"
          /\ (LoggedFeedback /\ Len(feedback') \in 1..6 /\ Qualifying(file')) =>
                (PassTookEffect <=> Len(feedback') \in {3, 6})]_vars

\* C11 witness: six feedback entries with qualifying records, and the two
\* passes at 3 and at 6 are the only ones that took effect.
C11_Witness ==
    /\ ~use_database
    /\ ret.op = "feedback"
    /\ Len(feedback) = 6
    /\ Qualifying(file)
    /\ patterns.training_iterations = 2

\* Three itineraries for paris, tokyo, tokyo, all three rated 5 through
\* record_feedback.
ParisTokyoTokyoRated(itineraries, log) ==
    /\ Len(itineraries) = 3
    /\ itineraries[1].city = "paris"
    /\ itineraries[2].city = "tokyo"
    /\ itineraries[3].city = "tokyo"
    /\ \A i \in 1..3 : itineraries[i].rated /\ itineraries[i].rating = 5
    /\ Len(log) = 3

\* C12: from the seed document and an empty store, after three itineraries
\* for paris, tokyo, tokyo have been stored and rated 5 through
\* record_feedback, running auto-train leaves high_rated_cities["Tokyo"] = 2
\* and high_rated_cities["Paris"] = 1.
C12_ParisTokyoTokyoCounts ==
    [][(/\ ParisTokyoTokyoRated(file, feedback)
        /\ patterns.training_iterations = 1
        /\ ret'.op = "startup"
        /\ PassTookEffect) =>
          /\ patterns'.high_rated_cities["Tokyo"] = 2
          /\ patterns'.high_rated_cities["Paris"] = 1]_vars

\* The summaries of the 5-star records.
TopSummaries(itineraries) ==
    {PromptSummary(itineraries[i]) :
        i \in {j \in 1..Len(itineraries) : RatingOr0(itineraries[j].rating) = 5}}

\* C13 as stated: after the three itineraries for paris, tokyo, tokyo are
\* rated 5 and auto-train has run, best_performing_prompts has exactly 3
\* entries, whatever the days, budget and word count of the records.
C13_ThreeBestPrompts ==
    [][(ParisTokyoTokyoRated(file', feedback') /\ PassTookEffect) =>
          Len(patterns'.best_performing_prompts) = 3]_vars

\* C13 amended: after the three itineraries for paris, tokyo, tokyo are rated
\* 5 and auto-train has run, best_performing_prompts holds each distinct
\* summary (destination, days, budget, rating, word count) of a 5-star record
\* exactly once: 3 entries when the two tokyo records differ in days, budget
\* or word count, 2 entries when they agree in all three.
C13_BestPromptsDistinctSummaries ==
    [][(ParisTokyoTokyoRated(file', feedback') /\ PassTookEffect) =>
          LET prompts == patterns'.best_performing_prompts
              same == /\ file'[2].trip_days = file'[3].trip_days
                      /\ file'[2].budget = file'[3].budget
                      /\ file'[2].word_count = file'[3].word_count
          IN /\ SeqRange(prompts) = TopSummaries(file')
             /\ \A i, j \in 1..Len(prompts) : i # j => prompts[i] # prompts[j]
             /\ Len(prompts) = IF same THEN 2 ELSE 3]_vars

\* C13 witness: the two tokyo records differ in word count, the pass of the
\* third feedback and a later construction have both run, and the list holds
\* the 3 summaries.
C13_Witness ==
    /\ ParisTokyoTokyoRated(file, feedback)
    /\ file[2].word_count # file[3].word_count
    /\ ret.op = "startup"
    /\ patterns.training_iterations = 2
    /\ Len(patterns.best_performing_prompts) = 3

NoRepeats(seq) == \A i, j \in 1..Len(seq) : i # j => seq[i] # seq[j]

\* C14: the insight list never has more than 15 entries and never holds a
\* sentence twice; it changes only in an auto-train pass that takes effect,
\* which appends one sentence of the catalog that the list did not hold and
\* keeps the most recent 15.
C14_InsightsBoundedNoRepeats ==
    [][LET before == patterns.quality_improvement_insights
           after == patterns'.quality_improvement_insights
       IN /\ Len(after) <= 15
          /\ NoRepeats(after)
          /\ after # before =>
                /\ PassTookEffect
                /\ \E x \in 1..12 :
                      /\ x \notin SeqRange(before)
                      /\ after = LastN(Append(before, x), 15)]_vars

\* C14 witness: four passes have taken effect, one of them drew a sentence
\* the list already held, and the list has three sentences.
C14_Witness ==
    /\ patterns.training_iterations = 4
    /\ Len(patterns.quality_improvement_insights) = 3
    /\ 12 \in SeqRange(patterns.quality_improvement_insights)

\* The positions of the flat-file records with rated = true and rating > 0.
RatedPositions == {i \in 1..Len(file) : file[i].rated /\ file[i].rating > 0}

\* C15: on the flat-file path the snapshot's average_rating is the sum of
\* the ratings of the records with rated = true and rating > 0 divided by
\* their number, 0.0 when there is none, and rating_distribution counts
\* exactly those records; an unrated record adds to neither.
C15_AverageOverRated ==
    (ret.op = "stats" /\ ret.source = "file") =>
        LET total == SumSeq([i \in 1..Len(file) |->
                                IF i \in RatedPositions THEN file[i].rating ELSE 0])
            n == Cardinality(RatedPositions)
        IN /\ ret.val.average_rating = IF n = 0 THEN 0 ELSE (total * 1000) \div n
           /\ DOMAIN ret.val.rating_distribution = {file[i].rating : i \in RatedPositions}
           /\ \A r \in DOMAIN ret.val.rating_distribution :
                  ret.val.rating_distribution[r] =
                      Cardinality({i \in RatedPositions : file[i].rating = r})
           /\ (n = 0) => ret.val.rating_distribution = <<>>

\* C15 witness: a snapshot over one record rated 4 and one record that was
\* never rated: the average is 4.0 and the histogram has the one rating.
C15_Witness ==
    /\ ret.op = "stats"
    /\ ret.source = "file"
    /\ Len(file) = 2
    /\ file[1].rated /\ file[1].rating = 4
    /\ ~file[2].rated /\ file[2].rating = 0
    /\ ret.val.average_rating = 4000
    /\ ret.val.rated_itineraries = 1

\* C16: two get_statistics calls with no store, feedback or auto-train step
\* between them return the same snapshot, also when the primary read
\* succeeds in one call and raises in the other.
C16_StatisticsIdempotent ==
    [][(ret.op = "stats" /\ ret'.op = "stats") => ret'.val = ret.val]_vars

\* What the flat-file path of a read operation computes from the flat-file
\* store as a cached load returns it.
FlatLoad == LoadCachedItineraries(file, cache, FALSE).val

\* C17: a read operation whose primary read succeeds returns the primary's
\* result; one whose primary read raises returns what the flat-file path
\* computes from the flat-file store.
C17_ReadFallsBackToFile ==
    [][/\ \A F \in ReadFaultSets, limit \in 1..MaxLimit :
             (system = "app" /\ use_database /\ GetRecentItineraries(limit, F)) =>
                 ret'.val = IF F = {}
                            THEN DbGetRecentItineraries(db_itins, db_trips, limit)
                            ELSE GetRecentFlat(FlatLoad, limit)
       /\ \A F \in ReadFaultSets :
             (system = "app" /\ use_database /\ GetStatistics(F)) =>
                 IF F = {}
                 THEN \E top_cities \in DbTopCities(db_trips) :
                         ret'.val = PrimaryStatistics(db_itins, db_trips, top_cities)
                 ELSE ret'.val = FlatStatistics(FlatLoad, feedback, patterns)]_vars

C19_WriteInvalidatesCache ==
    [][file' # file => LoadCachedItineraries(file', cache', FALSE).val = file']_vars

C21_DualStorageSameSize ==
    /\ system = "app" => Len(db_itins) = Len(file)
    /\ system = "dsm" => /\ Len(db_trips) = Len(dsm_trips)
                         /\ Len(db_itins) = Len(dsm_itins)

\* C22: an auto-train pass that finds fewer than 3 records, or no record
\* rated 4 or more (a null rating counting as 0), changes nothing: after a
\* construction the pattern document and the itinerary file are as before,
\* and after a record_feedback call that triggered the pass the pattern
\* document is as before and the file holds what the rating itself wrote.
\* With the primary enabled the pass never changes the pattern document.
C22_SkippedPassChangesNothing ==
    [][/\ (ret'.op = "startup" /\ ~Qualifying(file)) =>
             /\ patterns' = patterns
             /\ file' = file
       /\ (~use_database /\ FeedbackAtMultipleOf3 /\ ~Qualifying(file')) =>
             /\ patterns' = patterns
             /\ file' = RateFirstMatch(file, LastLogged.itinerary_id,
                                       LastLogged.rating, LastLogged.comments)
       /\ use_database => patterns' = patterns]_vars

\* C22 witness: the third feedback has triggered a pass over three records,
\* the first rated 3: the pass was skipped and the document is still the seed.
C22_Witness ==
    /\ ~use_database
    /\ ret.op = "feedback"
    /\ Len(feedback) = 3
    /\ Len(file) = 3
    /\ file[1].rated /\ file[1].rating = 3
    /\ ~Qualifying(file)
    /\ patterns = GenerateInitialPatterns

\* The number of records rated 4 or more whose title-cased destination is d.
HighRatedCount(itineraries, d) ==
    Cardinality({i \in 1..Len(itineraries) :
                    /\ RatingOr0(itineraries[i].rating) >= HighRating
                    /\ Title(itineraries[i].city) = d})

\* C23: in flat-file mode, after every auto-train pass that took effect,
\* high_rated_cities[d] is the number of itinerary records rated 4 or more
\* whose title-cased destination is d, for every destination d.
C23_CityCountIsRecordCount ==
    [][(~use_database /\ PassTookEffect) =>
          \A d \in TitledCities :
             patterns'.high_rated_cities[d] = HighRatedCount(file', d)]_vars

\* The number of records rated 4 or more.
HighQualityCount(itineraries) == Len(SelectSeq(itineraries, IsHighQuality))

\* The step invoked an auto-train pass: a construction, which runs it on the
\* file as it is, or a record_feedback call that brought the log to a
\* multiple of 3, which runs it on the file the rating has written.
PassInvokedOn(itineraries) ==
    \/ ret'.op = "startup" /\ itineraries = file
    \/ FeedbackAtMultipleOf3 /\ itineraries = file'

\* C24: in flat-file mode a pass that is not skipped adds exactly 1 to
\* training_iterations and sets total_training_samples to the number of
\* records rated 4 or more at that moment; a skipped pass changes neither;
\* training_iterations never decreases.
C24_IterationsAndSamples ==
    [][~use_database =>
          /\ \A itineraries \in {file, file'} :
                PassInvokedOn(itineraries) =>
                   IF Qualifying(itineraries)
                   THEN /\ patterns'.training_iterations =
                              patterns.training_iterations + 1
                        /\ patterns'.total_training_samples =
                              HighQualityCount(itineraries)
                   ELSE /\ patterns'.training_iterations = patterns.training_iterations
                        /\ patterns'.total_training_samples =
                              patterns.total_training_samples
          /\ patterns'.training_iterations >= patterns.training_iterations]_vars

\* C24 witness: a second pass, triggered by the feedback that rated record 1
\* down to 3, has lowered the sample count from 2 to 1.
C24_Witness ==
    /\ ~use_database
    /\ ret.op = "feedback"
    /\ patterns.training_iterations = 2
    /\ patterns.total_training_samples = 1
    /\ file[1].rating = 3
    /\ file[2].rating = 5

\* C25: in flat-file mode, after every pass that took effect every record
\* rated 4 or more is marked used_for_training; a record the pass has newly
\* marked carries the new value of the counter, a record marked before keeps
\* its stamp; the stamp of every marked record lies in 1..training_iterations.
C25_MarkedAndStamped ==
    [][~use_database =>
          /\ PassTookEffect =>
                /\ Len(file') = Len(file)
                /\ \A i \in 1..Len(file') :
                      /\ IsHighQuality(file'[i]) => file'[i].used_for_training
                      /\ file[i].used_for_training =>
                            file'[i].training_iteration = file[i].training_iteration
                      /\ (~file[i].used_for_training /\ file'[i].used_for_training) =>
                            file'[i].training_iteration = patterns'.training_iterations
          /\ \A i \in 1..Len(file') :
                file'[i].used_for_training =>
                    file'[i].training_iteration \in 1..patterns'.training_iterations]_vars

\* C25 witness: record 1 was marked by the first pass, record 2 by the second.
C25_Witness ==
    /\ ~use_database
    /\ Len(file) >= 2
    /\ file[1].used_for_training /\ file[1].training_iteration = 1
    /\ file[2].used_for_training /\ file[2].training_iteration = 2
    /\ patterns.training_iterations = 2

\* C29: in flat-file mode every record marked used_for_training is rated 4
\* or more, in every reachable state.
C29_MarkedIsHighRated ==
    ~use_database =>
        \A i \in 1..Len(file) : file[i].used_for_training => file[i].rating >= HighRating

\* C26: a row of the primary rated r in 1..5 carries the quality score the
\* flat-file code computes for that rating and the row's character count,
\* r * 16 + min(20, c / 1000), up to the rounding to two decimals.
C26_PrimaryScoreIsCapped ==
    \A i \in 1..Len(db_itins) :
        db_itins[i].rating \in 1..5 =>
            Round2(db_itins[i].quality_score) =
                CalculateQualityScore(db_itins[i].rating, db_itins[i].character_count)

\* C27: an execute_query call that got a connection ends either with a
\* commit, returning, or with a rollback, raising, and in both cases with the
\* connection back in the pool; a commit never follows a failure and nothing
\* follows the rollback but the return of the connection.  Between calls no
\* connection is checked out and no transaction is open; during a call
\* exactly the call's connection is checked out.
C27_OwnTransactionConnectionReturned ==
    /\ calls.pc = "idle" =>
          /\ pool.used = {}
          /\ \A c \in DOMAIN pool.txn : pool.txn[c] = "idle"
    /\ calls.pc # "idle" => pool.used = {calls.conn}
    /\ (ret.op = "execute_query" /\ ret.trail # <<>>) =>
          LET n == Len(ret.trail)
          IN /\ ret.trail[1] = "getconn"
             /\ ret.trail[n] = "putconn"
             /\ ret.trail[n - 1] = IF ret.raised THEN "rollback" ELSE "commit"
             /\ ~ret.raised =>
                   /\ n = 5
                   /\ ret.trail[2] = "begin"
                   /\ ret.trail[3] \in {"execute", "fetch"}
             /\ ret.raised => "commit" \notin SeqRange(ret.trail)

\* C27 witness: the statement-timeout setup of the third call raised; the call
\* rolled back, returned the connection and raised, after one call that
\* committed and one whose statement raised.
C27_Witness ==
    /\ calls.pc = "idle"
    /\ calls.done = <<"committed", "rolled_back", "rolled_back">>
    /\ ret.op = "execute_query"
    /\ ret.raised
    /\ ret.trail = <<"getconn", "begin", "rollback", "putconn">>
    /\ pool.used = {}

\* C28: the snapshot of get_statistics reports the number of itinerary
\* records, the length of the feedback log, and the number of records with
\* rated = true and rating > 0, which is also the sum of the counts of
\* rating_distribution; total_feedback is the length of the log also when
\* there is no itinerary record.
C28_StatisticsCounts ==
    (ret.op = "stats" /\ ret.source = "file") =>
        LET dist == ret.val.rating_distribution
        IN /\ ret.val.total_itineraries = Len(file)
           /\ ret.val.total_feedback = Len(feedback)
           /\ ret.val.rated_itineraries = Cardinality(RatedPositions)
           /\ BagCardinality(dist) = ret.val.rated_itineraries

\* C30: after every store_complete_itinerary call the primary holds the new
\* trip row together with its itinerary row or neither of them: every trip
\* row has exactly one itinerary row.
C30_TripHasOneItinerary ==
    system = "app" =>
        \A t \in 1..Len(db_trips) :
            Cardinality({i \in 1..Len(db_itins) :
                            db_itins[i].trip_id = db_trips[t].id}) = 1
====
